---- MODULE Spec2Model ----
(***************************************************************************)
(* Model of describe_images.py: the folder walker (process_folder), the    *)
(* caption and tag requesters, the streaming model client                  *)
(* (get_ollama_response) and the two metadata writers.                     *)
(*                                                                         *)
(* Python strings are sequences of one-character strings.  An optional     *)
(* value (str or None) is a record [present, text].  The result of a call  *)
(* is a record [raised, value]: raised = TRUE when an exception leaves the *)
(* call.                                                                   *)
(***************************************************************************)
EXTENDS Naturals, Sequences, FiniteSets

VARIABLES
    \* ---- process_folder ----
    files,      \* the files os.walk yields, in walk order: [name]
    idx,        \* index of the file the walk is at
    pc,         \* position in process_folder
    ext,        \* local ext of process_folder
    caption,    \* local caption of process_folder
    tags,       \* local tags of process_folder
    events,     \* what the run has done so far, in order
    \* ---- one call of get_ollama_response ----
    cpc,        \* position in get_ollama_response
    cReadable,  \* whether open(image_path, 'rb') succeeds
    cLines,     \* the lines response.iter_lines() has yielded so far
    cResult,    \* local result (the accumulator)
    cPart,      \* local part of the last line read
    cErrors,    \* number of "[ERROR] Could not parse JSON" messages printed
    cLogged,    \* whether "[ERROR] Failed to get Ollama response" was printed
    cRet,       \* the outcome of the call
    \* ---- tag clean-up of get_image_tags ----
    tpc,        \* position in the tag clean-up run
    tRaw,       \* a raw string handed to the clean-up
    tFailed,    \* whether the model client failed (returned None)
    tOnce,      \* the clean-up applied once to tRaw
    tTwice,     \* the clean-up applied to tOnce
    tTags       \* the outcome of get_image_tags

walkVars   == <<files, idx, pc, ext, caption, tags, events>>
clientVars == <<cpc, cReadable, cLines, cResult, cPart, cErrors, cLogged, cRet>>
tagVars    == <<tpc, tRaw, tFailed, tOnce, tTwice, tTags>>
vars       == <<walkVars, clientVars, tagVars>>

----------------------------------------------------------------------------
\* Bounds of the model.

MaxFiles == 2      \* files under the root
MaxLines == 3      \* lines of one streamed response
MaxLen   == 4      \* characters of a raw tag string

----------------------------------------------------------------------------
\* Python values.

None == [present |-> FALSE, text |-> <<>>]

Some(s) == [present |-> TRUE, text |-> s]

\* Python truthiness of a str-or-None value: `if caption:`, `if tags:`.
Truthy(v) == v.present /\ v.text # <<>>

Returned(v) == [raised |-> FALSE, value |-> v]

Raised == [raised |-> TRUE, value |-> None]

\* The characters str.strip() removes, among the ASCII characters the model
\* is written over: tab, newline, vertical tab, form feed, carriage return,
\* the four separators 0x1c..0x1f and the space.
Whitespace ==
    {"\t", "\n", "", "\f", "\r", "", "", "", "", " "}

\* str.strip()
RECURSIVE LStrip(_)
LStrip(s) ==
    IF s # <<>> /\ Head(s) \in Whitespace THEN LStrip(Tail(s)) ELSE s

RECURSIVE RStrip(_)
RStrip(s) ==
    IF s # <<>> /\ s[Len(s)] \in Whitespace
    THEN RStrip(SubSeq(s, 1, Len(s) - 1))
    ELSE s

Strip(s) == RStrip(LStrip(s))

\* str.split(','): the pieces between the commas, empty pieces included.
RECURSIVE SplitFrom(_, _, _)
SplitFrom(s, i, cur) ==
    IF i > Len(s) THEN <<cur>>
    ELSE IF s[i] = ","
         THEN <<cur>> \o SplitFrom(s, i + 1, <<>>)
         ELSE SplitFrom(s, i + 1, Append(cur, s[i]))

Split(s) == SplitFrom(s, 1, <<>>)

\* ', '.join(pieces)
RECURSIVE Join(_)
Join(pieces) ==
    IF pieces = <<>> THEN <<>>
    ELSE IF Len(pieces) = 1 THEN pieces[1]
         ELSE pieces[1] \o <<",", " ">> \o Join(Tail(pieces))

\* str.lower() on ASCII text: every upper-case letter gives its lower-case
\* letter, every other character stays.
UpperCase ==
    <<"A", "B", "C", "D", "E", "F", "G", "H", "I", "J", "K", "L", "M",
      "N", "O", "P", "Q", "R", "S", "T", "U", "V", "W", "X", "Y", "Z">>

LowerCase ==
    <<"a", "b", "c", "d", "e", "f", "g", "h", "i", "j", "k", "l", "m",
      "n", "o", "p", "q", "r", "s", "t", "u", "v", "w", "x", "y", "z">>

LowerChar(c) ==
    IF \E i \in DOMAIN UpperCase : UpperCase[i] = c
    THEN LowerCase[CHOOSE i \in DOMAIN UpperCase : UpperCase[i] = c]
    ELSE c

Lower(s) == [i \in 1..Len(s) |-> LowerChar(s[i])]

----------------------------------------------------------------------------
\* JSON as the model client sees it.

\* The value of a key of a parsed JSON object: the key is missing, its value
\* is null (or another falsy non-string), a string, or a truthy value that is
\* not a string (an object such as the chat API's message, a number, ...).
JAbsent == [kind |-> "absent", text |-> <<>>]

JNull == [kind |-> "null", text |-> <<>>]

JOther == [kind |-> "other", text |-> <<>>]

JStr(t) == [kind |-> "str", text |-> t]

\* dict.get(key): None for a missing key.
Get(v) == IF v.kind = "absent" THEN JNull ELSE v

\* Python truthiness of a JSON value.
TruthyVal(v) == v.kind = "other" \/ (v.kind = "str" /\ v.text # <<>>)

\* One line of the streamed body: an empty keep-alive line, bytes that are not
\* JSON, JSON that is not an object, or an object.
EmptyLine == [kind |-> "empty", response |-> JAbsent, message |-> JAbsent]

Garbage == [kind |-> "garbage", response |-> JAbsent, message |-> JAbsent]

Scalar == [kind |-> "scalar", response |-> JAbsent, message |-> JAbsent]

Obj(r, m) == [kind |-> "object", response |-> r, message |-> m]

ResponseVals ==
    {JAbsent, JNull, JStr(<<>>), JStr(<<"a">>), JStr(<<" ">>), JStr(<<"\n">>)}

MessageVals == {JAbsent, JStr(<<"b">>), JOther}

LineSet ==
    {EmptyLine, Garbage, Scalar}
        \cup {Obj(r, m) : r \in ResponseVals, m \in MessageVals}

\* What requests.post / raise_for_status / iter_lines can do.
Transports == {"ok", "conn_error", "http_error", "timeout", "stream_error"}

----------------------------------------------------------------------------
\* get_ollama_response

\* A variant that tries message before response.
PartPreferMessage(obj) ==
    IF TruthyVal(Get(obj.message)) THEN Get(obj.message) ELSE Get(obj.response)

\* part = obj.get('response') or obj.get('message')
Part(obj) ==
    IF TruthyVal(Get(obj.response)) THEN Get(obj.response) ELSE Get(obj.message)

\* A variant whose inner except throws the accumulated text away.
ProcessLineAbort(result, line) ==
    IF line.kind = "empty" THEN [result |-> result, err |-> FALSE]
    ELSE IF line.kind \in {"garbage", "scalar"}
         THEN [result |-> <<>>, err |-> TRUE]
         ELSE LET part == Part(line) IN
              IF ~TruthyVal(part) THEN [result |-> result, err |-> FALSE]
              ELSE IF part.kind = "str"
                   THEN [result |-> result \o part.text, err |-> FALSE]
                   ELSE [result |-> <<>>, err |-> TRUE]

\* One iteration of `for line in response.iter_lines()`: the accumulator after
\* it, and whether the inner except printed a message.  json.loads raises on
\* bytes that are not JSON, obj.get raises on JSON that is not an object, and
\* result += part raises on a truthy part that is not a string.
ProcessLine(result, line) ==
    IF line.kind = "empty" THEN [result |-> result, err |-> FALSE]
    ELSE IF line.kind \in {"garbage", "scalar"}
         THEN [result |-> result, err |-> TRUE]
         ELSE LET part == Part(line) IN
              IF ~TruthyVal(part) THEN [result |-> result, err |-> FALSE]
              ELSE IF part.kind = "str"
                   THEN [result |-> result \o part.text, err |-> FALSE]
                   ELSE [result |-> result, err |-> TRUE]

\* return result.strip() if result else None
Finalize(result) == IF result # <<>> THEN Some(Strip(result)) ELSE None

\* The accumulator after the first n lines of a stream.
RECURSIVE Accumulate(_, _)
Accumulate(lines, n) ==
    IF n = 0 THEN <<>>
    ELSE ProcessLine(Accumulate(lines, n - 1), lines[n]).result

\* The whole call: open() is outside the try, everything from requests.post
\* on is inside it.
GetOllamaResponse(readable, transport, lines) ==
    IF ~readable THEN Raised
    ELSE IF transport # "ok" THEN Returned(None)
    ELSE Returned(Finalize(Accumulate(lines, Len(lines))))

\* The same call, one step at a time.
ClientInit ==
    /\ cpc = "open"
    /\ cReadable \in BOOLEAN
    /\ cLines = <<>>
    /\ cResult = <<>>
    /\ cPart = JNull
    /\ cErrors = 0
    /\ cLogged = FALSE
    /\ cRet = Returned(None)

\* with open(image_path, 'rb') as img_file: ... base64 ... payload
COpen ==
    /\ cpc = "open"
    /\ IF cReadable
       THEN cpc' = "post" /\ cRet' = cRet
       ELSE cpc' = "done" /\ cRet' = GetOllamaResponse(FALSE, "ok", <<>>)
    /\ UNCHANGED <<cReadable, cLines, cResult, cPart, cErrors, cLogged>>

\* requests.post(...); response.raise_for_status(); result = ''
CPost ==
    /\ cpc = "post"
    /\ \E t \in Transports \ {"stream_error"} :
          IF t = "ok"
          THEN /\ cpc' = "stream"
               /\ cResult' = <<>>
               /\ UNCHANGED <<cLogged, cRet>>
          ELSE /\ cpc' = "done"
               /\ cLogged' = TRUE
               /\ cRet' = GetOllamaResponse(TRUE, t, <<>>)
               /\ UNCHANGED cResult
    /\ UNCHANGED <<cReadable, cLines, cPart, cErrors>>

\* one iteration of the for loop over response.iter_lines()
CReadLine ==
    /\ cpc = "stream"
    /\ Len(cLines) < MaxLines
    /\ \E line \in LineSet :
          LET r == ProcessLine(cResult, line) IN
          /\ cLines' = Append(cLines, line)
          /\ cResult' = r.result
          /\ cPart' = IF line.kind = "object" THEN Part(line) ELSE cPart
          /\ cErrors' = IF r.err THEN cErrors + 1 ELSE cErrors
    /\ UNCHANGED <<cpc, cReadable, cLogged, cRet>>

\* iter_lines raises (read timeout, broken connection): the outer except
CStreamError ==
    /\ cpc = "stream"
    /\ cpc' = "done"
    /\ cLogged' = TRUE
    /\ cRet' = GetOllamaResponse(TRUE, "stream_error", cLines)
    /\ UNCHANGED <<cReadable, cLines, cResult, cPart, cErrors>>

\* the stream ends: return result.strip() if result else None
CReturn ==
    /\ cpc = "stream"
    /\ cpc' = "done"
    /\ cRet' = Returned(Finalize(cResult))
    /\ UNCHANGED <<cReadable, cLines, cResult, cPart, cErrors, cLogged>>

ClientIdle ==
    /\ cpc = "idle"
    /\ cReadable = TRUE
    /\ cLines = <<>>
    /\ cResult = <<>>
    /\ cPart = JNull
    /\ cErrors = 0
    /\ cLogged = FALSE
    /\ cRet = Returned(None)

----------------------------------------------------------------------------
\* get_image_caption, get_image_tags

\* get_image_caption: the model client's outcome, unchanged.
GetImageCaption(readable, transport, lines) ==
    GetOllamaResponse(readable, transport, lines)

\* The pieces that survive `[t.strip() for t in tags.split(',') if t.strip()]`.
RECURSIVE TagList(_)
TagList(pieces) ==
    IF pieces = <<>> THEN <<>>
    ELSE IF Strip(Head(pieces)) # <<>>
         THEN <<Strip(Head(pieces))>> \o TagList(Tail(pieces))
         ELSE TagList(Tail(pieces))

\* A variant that filters on t.strip() but keeps t itself.
RECURSIVE TagListNoStrip(_)
TagListNoStrip(pieces) ==
    IF pieces = <<>> THEN <<>>
    ELSE IF Strip(Head(pieces)) # <<>>
         THEN <<Head(pieces)>> \o TagListNoStrip(Tail(pieces))
         ELSE TagListNoStrip(Tail(pieces))

NormalizeNoStrip(s) == Join(TagListNoStrip(Split(s)))

\* The clean-up: split on commas, strip each piece, drop the empty ones,
\* join with ', '.
Normalize(s) == Join(TagList(Split(s)))

\* A variant that strips the pieces but keeps the empty ones.
GetImageTagsKeepEmpty(out) ==
    IF out.raised THEN Raised
    ELSE IF Truthy(out.value)
         THEN LET ps == Split(out.value.text) IN
              Returned(Some(Join([i \in 1..Len(ps) |-> Strip(ps[i])])))
         ELSE Returned(None)

\* get_image_tags, given the outcome of its call of the model client.
GetImageTags(out) ==
    IF out.raised THEN Raised
    ELSE IF Truthy(out.value) THEN Returned(Some(Normalize(out.value.text)))
    ELSE Returned(None)

\* Strings of at most n characters over an alphabet.
RECURSIVE Strings(_, _)
Strings(alphabet, n) ==
    IF n = 0 THEN {<<>>}
    ELSE LET shorter == Strings(alphabet, n - 1) IN
         shorter \cup {Append(s, c) : s \in shorter, c \in alphabet}

TagAlphabet == {"a", "b", " ", "\n", ","}

TagInit ==
    /\ tpc = "start"
    /\ tRaw \in Strings(TagAlphabet, MaxLen)
    /\ tFailed \in BOOLEAN
    /\ tOnce = <<>>
    /\ tTwice = <<>>
    /\ tTags = Returned(None)

\* get_image_tags on a model client that failed, or that accumulated tRaw
TRequest ==
    /\ tpc = "start"
    /\ tpc' = "requested"
    /\ tTags' = GetImageTags(IF tFailed
                             THEN GetOllamaResponse(TRUE, "conn_error", <<>>)
                             ELSE Returned(Finalize(tRaw)))
    /\ UNCHANGED <<tRaw, tFailed, tOnce, tTwice>>

\* the clean-up applied to tRaw
TNormalize ==
    /\ tpc = "requested"
    /\ tpc' = "once"
    /\ tOnce' = Normalize(tRaw)
    /\ UNCHANGED <<tRaw, tFailed, tTwice, tTags>>

\* the clean-up applied to its own result
TNormalizeAgain ==
    /\ tpc = "once"
    /\ tpc' = "twice"
    /\ tTwice' = Normalize(tOnce)
    /\ UNCHANGED <<tRaw, tFailed, tOnce, tTags>>

TagIdle ==
    /\ tpc = "idle"
    /\ tRaw = <<>>
    /\ tFailed = FALSE
    /\ tOnce = <<>>
    /\ tTwice = <<>>
    /\ tTags = Returned(None)

----------------------------------------------------------------------------
\* The metadata writers.

\* What can go wrong in a writer: nothing, Image.open / piexif.load raising
\* before any field is set, piexif.dump / img.save raising after.
WriterFaults == {"none", "load", "save"}

\* str.encode('utf-16le') of ASCII text: each character, then a zero byte.
RECURSIVE Utf16le(_)
Utf16le(s) ==
    IF s = <<>> THEN <<>> ELSE <<Head(s), "NUL">> \o Utf16le(Tail(s))

\* A variant without the `if tags:` guard.
AddCaptionAndTagsToJpegAlways(c, t, fault) ==
    IF fault = "load"
    THEN [kind |-> "write_jpeg", fields |-> {}, saved |-> FALSE]
    ELSE [kind   |-> "write_jpeg",
          fields |-> {[key |-> "ImageDescription", val |-> c.text],
                      [key |-> "40094",
                       val |-> Utf16le(t.text) \o <<"NUL", "NUL">>]},
          saved  |-> fault = "none"]

\* add_caption_and_tags_to_jpeg: the EXIF fields it assigns and whether the
\* file was saved.  Every exception is caught and printed inside.
AddCaptionAndTagsToJpeg(c, t, fault) ==
    IF fault = "load"
    THEN [kind |-> "write_jpeg", fields |-> {}, saved |-> FALSE]
    ELSE [kind   |-> "write_jpeg",
          fields |-> {[key |-> "ImageDescription", val |-> c.text]}
                     \cup IF Truthy(t)
                          THEN {[key |-> "40094",
                                 val |-> Utf16le(t.text) \o <<"NUL", "NUL">>]}
                          ELSE {},
          saved  |-> fault = "none"]

\* add_caption_and_tags_to_png: the text chunks it adds and whether the file
\* was saved.  Every exception is caught and printed inside.
AddCaptionAndTagsToPng(c, t, fault) ==
    IF fault = "load"
    THEN [kind |-> "write_png", fields |-> {}, saved |-> FALSE]
    ELSE [kind   |-> "write_png",
          fields |-> {[key |-> "Description", val |-> c.text]}
                     \cup IF Truthy(t)
                          THEN {[key |-> "Keywords", val |-> t.text]}
                          ELSE {},
          saved  |-> fault = "none"]

----------------------------------------------------------------------------
\* process_folder

SUPPORTED_EXTENSIONS ==
    {<<".", "j", "p", "g">>, <<".", "j", "p", "e", "g">>, <<".", "p", "n", "g">>}

\* os.path.splitext(fname)[1]: from the last dot on, unless only dots come
\* before it.
Splitext(name) ==
    LET dots == {i \in 1..Len(name) : name[i] = "."} IN
    IF dots = {} THEN <<>>
    ELSE LET d == CHOOSE i \in dots : \A j \in dots : j <= i IN
         IF \E k \in 1..(d - 1) : name[k] # "."
         THEN SubSeq(name, d, Len(name))
         ELSE <<>>

\* A variant that forgets .lower().
ExtOfCaseSensitive(name) == Splitext(name)

\* ext = os.path.splitext(fname)[1].lower()
ExtOf(name) == Lower(Splitext(name))

\* The file names of the model.
FileNames ==
    {<<"a", ".", "j", "p", "g">>,
     <<"a", ".", "J", "P", "E", "G">>,
     <<"a", ".", "P", "n", "g">>,
     <<"a", ".", "T", "X", "T">>,
     <<".", "p", "n", "g">>,
     <<"j", "p", "g">>}

FileSet == [name : FileNames]

\* Whether open(fpath, 'rb') succeeds: decided anew at every open, since the
\* file can be removed or locked by another process during the walk.
Readable == BOOLEAN

\* Sequences of at most n elements of a set.
RECURSIVE SeqsUpTo(_, _)
SeqsUpTo(S, n) ==
    IF n = 0 THEN {<<>>}
    ELSE LET shorter == SeqsUpTo(S, n - 1) IN
         shorter \cup {Append(q, x) : q \in shorter, x \in S}

\* The streamed bodies the model service answers a caption request of the
\* walk with: nothing, or a sentence in pieces around a broken line.
CaptionStreams ==
    {<<>>,
     <<Obj(JStr(<<"a">>), JAbsent), Garbage, Obj(JStr(<<" ">>), JAbsent)>>}

\* The streamed bodies it answers a tag request with: nothing, a lone comma,
\* or two keywords.
TagStreams ==
    {<<>>,
     <<Obj(JStr(<<",">>), JAbsent)>>,
     <<Obj(JStr(<<"a">>), JAbsent), Obj(JStr(<<",">>), JAbsent),
       Obj(JStr(<<>>), JStr(<<"b">>))>>}

\* The entries of the history of a run: a message printed, a request made
\* (with its outcome), a writer called (with what it set).
Event(i, k) ==
    [file |-> i, kind |-> k, raised |-> FALSE, value |-> None,
     fields |-> {}, saved |-> FALSE]

RequestEvent(i, k, out) ==
    [file |-> i, kind |-> k, raised |-> out.raised, value |-> out.value,
     fields |-> {}, saved |-> FALSE]

WriteEvent(i, w) ==
    [file |-> i, kind |-> w.kind, raised |-> FALSE, value |-> None,
     fields |-> w.fields, saved |-> w.saved]

WalkInit ==
    /\ files \in SeqsUpTo(FileSet, MaxFiles)
    /\ idx = 1
    /\ pc = "walk"
    /\ ext = <<>>
    /\ caption = None
    /\ tags = None
    /\ events = <<>>

\* for fname in files: ext = ...; if ext in SUPPORTED_EXTENSIONS: print INFO
VisitFile ==
    /\ pc = "walk"
    /\ idx <= Len(files)
    /\ ext' = ExtOf(files[idx].name)
    /\ IF ext' \in SUPPORTED_EXTENSIONS
       THEN /\ pc' = "caption"
            /\ events' = Append(events, Event(idx, "info"))
            /\ idx' = idx
       ELSE /\ pc' = "walk"
            /\ events' = events
            /\ idx' = idx + 1
    /\ UNCHANGED <<files, caption, tags>>

\* caption = get_image_caption(fpath)
RequestCaption ==
    /\ pc = "caption"
    /\ \E out \in {GetImageCaption(r, t, lines) :
                        r \in Readable, t \in Transports,
                        lines \in CaptionStreams} :
          /\ IF out.raised
             THEN pc' = "crashed" /\ caption' = caption
             ELSE pc' = "tags" /\ caption' = out.value
          /\ events' = Append(events, RequestEvent(idx, "caption_req", out))
    /\ UNCHANGED <<files, idx, ext, tags>>

\* tags = get_image_tags(fpath)
RequestTags ==
    /\ pc = "tags"
    /\ \E out \in {GetImageTags(GetOllamaResponse(r, t, lines)) :
                        r \in Readable, t \in Transports,
                        lines \in TagStreams} :
          /\ IF out.raised
             THEN pc' = "crashed" /\ tags' = tags
             ELSE pc' = "dispatch" /\ tags' = out.value
          /\ events' = Append(events, RequestEvent(idx, "tag_req", out))
    /\ UNCHANGED <<files, idx, ext, caption>>

\* if caption:
HasCaption(c, t) == Truthy(c)

\* the writer call of the `if caption:` branch, chosen by ext
WriterCall(e, c, t, fault) ==
    IF e \in {<<".", "j", "p", "g">>, <<".", "j", "p", "e", "g">>}
    THEN <<AddCaptionAndTagsToJpeg(c, t, fault)>>
    ELSE IF e = <<".", "p", "n", "g">>
         THEN <<AddCaptionAndTagsToPng(c, t, fault)>>
         ELSE <<>>

\* if caption: writer, print CAPTION, print TAGS / else: print WARN
Dispatch ==
    /\ pc = "dispatch"
    /\ IF HasCaption(caption, tags)
       THEN \E fault \in WriterFaults :
               LET ws == WriterCall(ext, caption, tags, fault) IN
               events' = events
                   \o [i \in 1..Len(ws) |-> WriteEvent(idx, ws[i])]
                   \o <<Event(idx, "caption_log")>>
                   \o (IF Truthy(tags) THEN <<Event(idx, "tags_log")>> ELSE <<>>)
       ELSE events' = Append(events, Event(idx, "warn"))
    /\ idx' = idx + 1
    /\ pc' = "walk"
    /\ UNCHANGED <<files, ext, caption, tags>>

\* os.walk is exhausted: process_folder returns
Finish ==
    /\ pc = "walk"
    /\ idx > Len(files)
    /\ pc' = "done"
    /\ UNCHANGED <<files, idx, ext, caption, tags, events>>

WalkIdle ==
    /\ files = <<>>
    /\ idx = 1
    /\ pc = "idle"
    /\ ext = <<>>
    /\ caption = None
    /\ tags = None
    /\ events = <<>>

----------------------------------------------------------------------------
\* The specifications.

\* A run of process_folder.
Init == WalkInit /\ ClientIdle /\ TagIdle

Next ==
    \/ VisitFile /\ UNCHANGED <<clientVars, tagVars>>
    \/ RequestCaption /\ UNCHANGED <<clientVars, tagVars>>
    \/ RequestTags /\ UNCHANGED <<clientVars, tagVars>>
    \/ Dispatch /\ UNCHANGED <<clientVars, tagVars>>
    \/ Finish /\ UNCHANGED <<clientVars, tagVars>>

Spec == Init /\ [][Next]_vars

\* One call of get_ollama_response.
ClientSpecInit == ClientInit /\ WalkIdle /\ TagIdle

ClientSpecNext ==
    \/ COpen /\ UNCHANGED <<walkVars, tagVars>>
    \/ CPost /\ UNCHANGED <<walkVars, tagVars>>
    \/ CReadLine /\ UNCHANGED <<walkVars, tagVars>>
    \/ CStreamError /\ UNCHANGED <<walkVars, tagVars>>
    \/ CReturn /\ UNCHANGED <<walkVars, tagVars>>

ClientSpec == ClientSpecInit /\ [][ClientSpecNext]_vars

\* get_image_tags and its clean-up on one model output.
TagSpecInit == TagInit /\ WalkIdle /\ ClientIdle

TagSpecNext ==
    \/ TRequest /\ UNCHANGED <<walkVars, clientVars>>
    \/ TNormalize /\ UNCHANGED <<walkVars, clientVars>>
    \/ TNormalizeAgain /\ UNCHANGED <<walkVars, clientVars>>

TagSpec == TagSpecInit /\ [][TagSpecNext]_vars

----------------------------------------------------------------------------
\* Vocabulary of the properties.

\* The positions of the events of file i of a kind among ks.
EventsAt(i, ks) ==
    {n \in DOMAIN events : events[n].file = i /\ events[n].kind \in ks}

WriterKinds == {"write_jpeg", "write_png"}

\* The walk has taken its decision on file i.
Considered(i) == i < idx \/ (i = idx /\ pc \notin {"walk", "idle"})

\* The walk is through with file i.
Completed(i) == i < idx

\* Two characters that differ at most in case.
CasePairs ==
    {<<"J", "j">>, <<"P", "p">>, <<"G", "g">>, <<"E", "e">>, <<"N", "n">>}

SameIgnoringCase(c, d) ==
    c = d \/ <<c, d>> \in CasePairs \/ <<d, c>> \in CasePairs

\* name is a stem that is not only dots, followed by e in any case.
EndsWith(name, e) ==
    LET k == Len(name) - Len(e) IN
    /\ Len(name) > Len(e)
    /\ \A j \in 1..Len(e) : SameIgnoringCase(name[k + j], e[j])
    /\ \E j \in 1..k : name[j] # "."

IsJpegName(name) ==
    \/ EndsWith(name, <<".", "j", "p", "g">>)
    \/ EndsWith(name, <<".", "j", "p", "e", "g">>)

IsPngName(name) == EndsWith(name, <<".", "p", "n", "g">>)

Qualifies(name) == IsJpegName(name) \/ IsPngName(name)

\* The caption request of file i returned a caption / returned none.
CaptionPresent(i) ==
    \E n \in EventsAt(i, {"caption_req"}) :
        ~events[n].raised /\ Truthy(events[n].value)

CaptionAbsent(i) ==
    \E n \in EventsAt(i, {"caption_req"}) :
        ~events[n].raised /\ ~Truthy(events[n].value)

TagsAbsent(i) ==
    \E n \in EventsAt(i, {"tag_req"}) :
        ~events[n].raised /\ ~Truthy(events[n].value)

CaptionOf(i) ==
    events[CHOOSE n \in EventsAt(i, {"caption_req"}) : TRUE].value.text

----------------------------------------------------------------------------
\* Properties of get_ollama_response (checked under ClientSpec).

\* C1: no failure leaves the call.  Whatever goes wrong (the image cannot be
\* read, the connection fails, the status is not a success, the request or
\* the reading of the stream times out), the call returns None after printing
\* the error, and no exception escapes.
C1_NeverPropagates ==
    cpc = "done" =>
        /\ ~cRet.raised
        /\ ~cReadable => (cRet.value = None /\ cLogged)
        /\ cLogged => cRet.value = None

\* The text a parsed line contributes: the string part of an object, nothing
\* for any other line.
Fragment(line) ==
    IF line.kind = "object" /\ Part(line).kind = "str"
    THEN Part(line).text
    ELSE <<>>

\* The fragments of a stream, joined in arrival order.
RECURSIVE Concatenation(_)
Concatenation(lines) ==
    IF lines = <<>> THEN <<>>
    ELSE Fragment(Head(lines)) \o Concatenation(Tail(lines))

Unparsable(lines) == {n \in DOMAIN lines : lines[n].kind = "garbage"}

\* C3: on a stream that came with a success status, the accumulator is at
\* every moment the concatenation, in arrival order, of the fragments of the
\* lines read so far; a line that does not parse is logged and changes
\* nothing; and the call returns that concatenation stripped of surrounding
\* whitespace, or None when nothing was accumulated.
C3_TrimmedConcatenation ==
    /\ cpc = "stream" => cResult = Concatenation(cLines)
    /\ cpc \in {"stream", "done"} => cErrors >= Cardinality(Unparsable(cLines))
    /\ (cpc = "done" /\ cReadable /\ ~cLogged) =>
          /\ ~cRet.raised
          /\ cRet.value = IF Concatenation(cLines) = <<>>
                          THEN None
                          ELSE Some(Strip(Concatenation(cLines)))

\* C3 happens: a stream with an unparsable line between two text fragments
\* was read to its end, and the returned text lost surrounding whitespace.
C3_Witness ==
    /\ cpc = "done" /\ cReadable /\ ~cLogged
    /\ \E i, j, k \in DOMAIN cLines :
          /\ i < j /\ j < k
          /\ Fragment(cLines[i]) # <<>>
          /\ cLines[j].kind = "garbage"
          /\ Fragment(cLines[k]) # <<>>
    /\ cRet.value.present
    /\ cRet.value.text # <<>>
    /\ cRet.value.text # cResult

\* The line read last, when it is an object.
LastIsObject ==
    /\ cpc = "stream"
    /\ cLines # <<>>
    /\ cLines[Len(cLines)].kind = "object"

\* The text of a part: its characters when it is a string, none otherwise.
TextOf(v) == IF v.kind = "str" THEN v.text ELSE <<>>

\* C10 as claimed: the part taken from an object is the value of response
\* whenever the object has that key (with a string for its value); message
\* is used only when the key is missing.
C10_ResponseWheneverPresent ==
    LastIsObject =>
        LET obj == cLines[Len(cLines)] IN
        /\ obj.response.kind = "str" => TextOf(cPart) = obj.response.text
        /\ obj.response.kind = "absent" => cPart = Get(obj.message)

\* C10 amended: the part taken from an object is the value of response
\* whenever that value is truthy (present and not empty); message is used
\* when response is missing, null or the empty string.
C10_ResponseWhenNonEmpty ==
    LastIsObject =>
        LET obj == cLines[Len(cLines)] IN
        /\ (obj.response.kind = "str" /\ obj.response.text # <<>>)
              => cPart = obj.response
        /\ (obj.response.kind \in {"absent", "null"}
              \/ (obj.response.kind = "str" /\ obj.response.text = <<>>))
              => cPart = Get(obj.message)

\* C10 happens: a line carrying both fields gave its response, then a line
\* with an empty response and a message gave its message.
C10_Witness ==
    /\ cpc = "stream"
    /\ Len(cLines) = 2
    /\ cLines[1] = Obj(JStr(<<"a">>), JStr(<<"b">>))
    /\ cLines[2] = Obj(JStr(<<>>), JStr(<<"b">>))
    /\ cPart = JStr(<<"b">>)
    /\ cResult = <<"a", "b">>

----------------------------------------------------------------------------
\* Properties of get_image_tags (checked under TagSpec).

\* C6: the clean-up of a tag string is idempotent: applied to its own result
\* it changes nothing.
C6_NormalizeIdempotent == tpc = "twice" => tTwice = tOnce

\* C6 happens: the clean-up was applied twice to a string it does change and
\* that holds more than one keyword.
C6_Witness ==
    /\ tpc = "twice"
    /\ tOnce # tRaw
    /\ \E n \in DOMAIN tOnce : tOnce[n] = ","
    /\ \E n \in DOMAIN tRaw : tRaw[n] = " "

\* The characters of s other than commas and whitespace, in order.
Letters(s) == SelectSeq(s, LAMBDA c : c # "," /\ c \notin Whitespace)

\* The pieces of s between commas that hold more than whitespace.
NonBlankPieces(s) ==
    {n \in DOMAIN Split(s) : Letters(Split(s)[n]) # <<>>}

\* s is one or more keywords joined by ", ": cut at the commas, every piece
\* but the first starts with the space of the separator, and what remains of
\* each piece is not empty and has no whitespace at either end.
IsKeywordList(s) ==
    LET ps == Split(s) IN
    \A n \in DOMAIN ps :
        LET kw == IF n = 1 THEN ps[n] ELSE Tail(ps[n]) IN
        /\ n > 1 => (ps[n] # <<>> /\ Head(ps[n]) = " ")
        /\ kw # <<>>
        /\ Head(kw) \notin Whitespace
        /\ kw[Len(kw)] \notin Whitespace

\* The model client's result get_image_tags worked on.
ClientValue == IF tFailed THEN None ELSE Finalize(tRaw)

\* C9 as claimed: the result of get_image_tags is None or a list of one or
\* more keywords, never the empty string; a model output without any
\* non-empty piece gives None.
C9_AbsentOrKeywords ==
    tpc # "start" =>
        /\ ~tTags.raised
        /\ tTags.value = None \/ (tTags.value.present /\ IsKeywordList(tTags.value.text))
        /\ NonBlankPieces(ClientValue.text) = {} => tTags.value = None

\* C9 amended: the result of get_image_tags is None when the model client
\* gave None or the empty string, the empty string when the model output is
\* not empty but holds no non-empty piece (only commas and whitespace), and
\* otherwise a list of one or more keywords joined by ", ", in model output
\* order, each keyword not empty and without whitespace at either end.
C9_AbsentEmptyOrKeywords ==
    tpc # "start" =>
        /\ ~tTags.raised
        /\ ~Truthy(ClientValue) => tTags.value = None
        /\ (Truthy(ClientValue) /\ NonBlankPieces(ClientValue.text) = {})
              => tTags.value = Some(<<>>)
        /\ (Truthy(ClientValue) /\ NonBlankPieces(ClientValue.text) # {})
              => /\ tTags.value.present
                 /\ IsKeywordList(tTags.value.text)
                 /\ Letters(tTags.value.text) = Letters(ClientValue.text)
                 /\ Cardinality(DOMAIN Split(tTags.value.text))
                        = Cardinality(NonBlankPieces(ClientValue.text))

\* C9 happens: a model output of commas and whitespace only gave the empty
\* string.
C9_Witness ==
    /\ tpc = "requested"
    /\ ~tFailed
    /\ \E n \in DOMAIN tRaw : tRaw[n] = ","
    /\ \E n \in DOMAIN tRaw : tRaw[n] = " "
    /\ tTags.value = Some(<<>>)

----------------------------------------------------------------------------
\* Properties of process_folder (checked under Spec).

\* C2: the walk attempts every qualifying file whatever happened on earlier
\* files, and ends normally: no failure on a file stops it.
C2_EveryFileAttempted ==
    /\ pc # "crashed"
    /\ pc = "done" =>
          \A i \in DOMAIN files :
              Qualifies(files[i].name) =>
                  /\ EventsAt(i, {"caption_req"}) # {}
                  /\ EventsAt(i, {"tag_req"}) # {}

\* The run of process_folder is over: it returned, or an exception left it.
RunOver == pc \in {"done", "crashed"}

\* C4: when the caption request of a file gives no caption, no writer is
\* called for the file, neither caption nor tags are reported, and a warning
\* is printed for it: exactly one by the time the walk is through with the
\* file or the run is over.
C4_NoCaptionNoWrite ==
    \A i \in DOMAIN files :
        CaptionAbsent(i) =>
            /\ EventsAt(i, WriterKinds) = {}
            /\ EventsAt(i, {"caption_log", "tags_log"}) = {}
            /\ (Completed(i) \/ RunOver) =>
                  Cardinality(EventsAt(i, {"warn"})) = 1

\* What the writers set for a caption alone.
CaptionOnly(name, c) ==
    IF IsJpegName(name)
    THEN {[key |-> "ImageDescription", val |-> c]}
    ELSE {[key |-> "Description", val |-> c]}

\* C5: when the tag request gives no tags but there is a caption, the writer
\* of the file's kind is called exactly once, and it sets the caption only:
\* ImageDescription and not 40094 for a JPEG, Description and no Keywords for
\* a PNG (nothing at all when the image could not be loaded).
C5_CaptionOnlyWrite ==
    \A i \in DOMAIN files :
        (Completed(i) /\ CaptionPresent(i) /\ TagsAbsent(i)) =>
            /\ Cardinality(EventsAt(i, WriterKinds)) = 1
            /\ \A n \in EventsAt(i, WriterKinds) :
                  /\ events[n].kind =
                        IF IsJpegName(files[i].name) THEN "write_jpeg"
                        ELSE "write_png"
                  /\ events[n].fields \in
                        {{}, CaptionOnly(files[i].name, CaptionOf(i))}
                  /\ events[n].saved =>
                        events[n].fields = CaptionOnly(files[i].name, CaptionOf(i))
                  /\ \A f \in events[n].fields :
                        f.key \notin {"40094", "Keywords"}

\* C5 happens: a JPEG and a PNG, each with a caption and no tags, were both
\* written and saved with the caption alone.
C5_Witness ==
    \E i, j \in DOMAIN files :
        /\ Completed(i) /\ Completed(j)
        /\ IsJpegName(files[i].name) /\ IsPngName(files[j].name)
        /\ CaptionPresent(i) /\ CaptionPresent(j)
        /\ \E n \in EventsAt(i, {"tag_req"}) : events[n].value = None
        /\ \E n \in EventsAt(j, {"tag_req"}) : events[n].value = None
        /\ \E n \in EventsAt(i, {"write_jpeg"}) :
              events[n].saved /\ Cardinality(events[n].fields) = 1
        /\ \E n \in EventsAt(j, {"write_png"}) :
              events[n].saved /\ Cardinality(events[n].fields) = 1

\* C7: the walk selects a file exactly when its extension is .jpg, .jpeg or
\* .png in any case: a file it has decided on has its INFO line (and, once
\* its caption step is over, its caption request) if and only if it
\* qualifies; any other file leaves no trace; and a tree without a
\* qualifying file gives a run without events that cannot fail.
C7_SelectsSupportedExtensions ==
    /\ \A i \in DOMAIN files :
          /\ Considered(i) =>
                (EventsAt(i, {"info"}) # {} <=> Qualifies(files[i].name))
          /\ (Considered(i) /\ pc # "caption") =>
                (EventsAt(i, {"caption_req"}) # {} <=> Qualifies(files[i].name))
          /\ ~Qualifies(files[i].name) =>
                {n \in DOMAIN events : events[n].file = i} = {}
    /\ (\A i \in DOMAIN files : ~Qualifies(files[i].name)) =>
          (events = <<>> /\ pc # "crashed")

\* C7 happens: the walk is over; it selected a file with an upper-case
\* extension and passed over a dot-file named after an extension.
C7_Witness ==
    /\ pc = "done"
    /\ \E i, j \in DOMAIN files :
          /\ files[i].name = <<"a", ".", "J", "P", "E", "G">>
          /\ EventsAt(i, {"caption_req"}) # {}
          /\ EventsAt(i, {"tag_req"}) # {}
          /\ files[j].name = <<".", "p", "n", "g">>
          /\ {n \in DOMAIN events : events[n].file = j} = {}

\* C8: per file the events come in a fixed order without retry: exactly one
\* caption request, then exactly one tag request whatever the caption request
\* gave, then at most one write; and the events of a file all come before the
\* events of the next file.  "Exactly one" is asked of every file the walk
\* selected, by the time the walk is through with it or the run is over.
C8_FixedOrderNoInterleaving ==
    /\ \A n, m \in DOMAIN events : n < m => events[n].file <= events[m].file
    /\ \A i \in DOMAIN files :
          /\ Cardinality(EventsAt(i, {"caption_req"})) <= 1
          /\ Cardinality(EventsAt(i, {"tag_req"})) <= 1
          /\ Cardinality(EventsAt(i, WriterKinds)) <= 1
          /\ \A t \in EventsAt(i, {"tag_req"}) :
                \E c \in EventsAt(i, {"caption_req"}) : c < t
          /\ \A w \in EventsAt(i, WriterKinds) :
                \E t \in EventsAt(i, {"tag_req"}) : t < w
          /\ ((Completed(i) \/ RunOver) /\ EventsAt(i, {"info"}) # {}) =>
                /\ Cardinality(EventsAt(i, {"caption_req"})) = 1
                /\ Cardinality(EventsAt(i, {"tag_req"})) = 1
          /\ (i = idx /\ pc = "dispatch") =>
                Cardinality(EventsAt(i, {"tag_req"})) = 1

====
